---- MODULE Spec2Model ----
(***************************************************************************)
(* pullpoet: the branch differencing engine (internal/git/diff.go and      *)
(* internal/git/fast_diff.go) and the response parser                      *)
(* (internal/pr/generate.go).                                              *)
(*                                                                         *)
(* Three specifications share this module:                                 *)
(*   SpecWalk   the two commit walkers over a family of commit graphs      *)
(*   SpecCall   one differencing call per strategy, step by step           *)
(*   SpecParse  Generator.parseResponse over bounded responses             *)
(* Each specification pins the variables of the others.                    *)
(***************************************************************************)
EXTENDS Integers, Sequences, FiniteSets, TLC

VARIABLES
    repo,        \* the remote history: [base, behind, ahead, merged, pipe]
    walkPc,      \* SpecWalk: which walkers have run
    libWalk,     \* result of Client.getCommitsBetweenBranches
    fastWalk,    \* result of FastClient.getCommitsBetweenBranchesFast
    remote,      \* the remote's refs: [branches, head]
    args,        \* the (source, target) arguments of the differencing calls
    lib,         \* the call of the library strategy (git.Client)
    fast,        \* the call of the native strategy (git.FastClient)
    response,    \* the argument of Generator.parseResponse
    parse,       \* the call of parseResponse: [pc, jsonResult, result, err, by]
    repoURL,     \* the argument of extractRepoInfo
    repoInfo,    \* the call of extractRepoInfo: [done, url]
    given,       \* the settings as given: [cli, file, env, clickupTaskID, jiraTaskID]
    run          \* the call of run: [pc, flags, cfg, built, validated, analyzed, err]

vars == <<repo, walkPc, libWalk, fastWalk, remote, args, lib, fast, response, parse,
          repoURL, repoInfo, given, run>>

\* ------------------------------------------------------------------------
\* Bounds of the model
\* ------------------------------------------------------------------------
MaxAhead == 25
MaxBase == 3

\* ------------------------------------------------------------------------
\* Program constants
\* ------------------------------------------------------------------------
\* diff.go:485  if len(commits) >= 20
CommitLimit == 20
\* fast_diff.go:220  --max-count=20
MaxCount == 20
\* diff.go:383 Depth: 100 ; fast_diff.go:161 --depth=100
FetchDepth == 100
\* fast_diff.go:241  len(parts) != 5
LogFields == 5

NoCommits == <<>>

NotRun == [commits |-> NoCommits, err |-> "not run"]

\* var jsonResult struct{Title, Body string} of parseResponse
EmptyJSON == [Title |-> <<>>, Body |-> <<>>]

\* no call of extractRepoInfo
NoInfo == [done |-> FALSE, url |-> <<>>]

\* the settings of run: the names of the flag variables of cmd/main.go that
\* have a flag, a key of .pullpoet.yml and an environment variable
Settings ==
    {"provider", "model", "apiKey", "providerBaseURL", "language",
     "clickupPAT", "jiraBaseURL", "jiraUsername", "jiraAPIToken"}

\* the fields of config.Config that run fills and Validate reads
ConfigFields == Settings \cup {"repo", "source", "clickupTaskID", "jiraTaskID"}

\* the zero value of config.Config
NoConfig == [f \in ConfigFields |-> ""]

\* nothing given anywhere
NoSettings ==
    [cli |-> [s \in Settings |-> ""], file |-> [s \in Settings |-> ""],
     env |-> [s \in Settings |-> ""], clickupTaskID |-> "", jiraTaskID |-> ""]

\* no call of run
NotStarted ==
    [pc |-> "idle", flags |-> [s \in Settings |-> ""], cfg |-> NoConfig,
     built |-> FALSE, validated |-> FALSE, analyzed |-> FALSE, err |-> "nil"]

\* no call of parseResponse
NotParsing ==
    [pc |-> "none", resp |-> <<>>, json |-> EmptyJSON,
     result |-> <<>>, err |-> "nil", by |-> 0]

\* ------------------------------------------------------------------------
\* The remote history.  Commits are numbered in commit-date order; a parent
\* is always older than its child.
\*   1 .. base                       history common to both branches
\*   base+1 .. base+behind           commits only on the target branch
\*   base+behind+1 .. +ahead         commits only on the source branch
\*   base+behind+ahead+1             (merged) merge of target into source
\* ------------------------------------------------------------------------
TargetTip(r) == r.base + r.behind

LastSourceOnly(r) == IF r.ahead = 0 THEN r.base ELSE r.base + r.behind + r.ahead

SourceTip(r) == IF r.merged THEN r.base + r.behind + r.ahead + 1 ELSE LastSourceOnly(r)

NumCommits(r) == r.base + r.behind + r.ahead + (IF r.merged THEN 1 ELSE 0)

Parents(r, c) ==
    IF c = 1 THEN <<>>
    ELSE IF r.merged /\ c = r.base + r.behind + r.ahead + 1
         THEN <<LastSourceOnly(r), TargetTip(r)>>
    ELSE IF c = r.base + r.behind + 1 THEN <<r.base>>
    ELSE <<c - 1>>

Range(s) == {s[i] : i \in 1..Len(s)}

AllCommits(r) == 1..NumCommits(r)

\* Breadth-first walk along the parent links of the commits in `deep', at
\* most n levels deep: the commits seen and the last level reached.  A walk
\* of n levels is a walk of n \div 2 levels continued for the remaining ones.
RECURSIVE Walk(_, _, _, _, _)
Walk(r, deep, frontier, seen, n) ==
    IF frontier = {} \/ n = 0 THEN [frontier |-> frontier, seen |-> seen]
    ELSE IF n = 1
    THEN LET parents == UNION {Range(Parents(r, c)) : c \in frontier \cap deep}
             next == {c : c \in parents \ seen}
         IN [frontier |-> next, seen |-> {c : c \in seen \cup next}]
    ELSE LET half == Walk(r, deep, frontier, seen, n \div 2)
         IN IF half.frontier = {} THEN half
            ELSE Walk(r, deep, half.frontier, half.seen, n - (n \div 2))

\* Ancestors of c in the full remote history, c included.
RemoteAncestors(r, c) == Walk(r, AllCommits(r), {c}, {c}, NumCommits(r)).seen

\* remote.Fetch(Depth: 100) / git fetch --depth=100 of the two branches.
\*   have: the commits at most FetchDepth - 1 parent links away from a tip
\*   deep: those of them whose parents were fetched too; the commits exactly
\*         FetchDepth - 1 links away are the shallow boundary and have no
\*         parents in the fetched repository
FetchedCommits(r) ==
    LET tips == {SourceTip(r), TargetTip(r)} IN
    [have |-> Walk(r, AllCommits(r), tips, tips, FetchDepth - 1).seen,
     deep |-> Walk(r, AllCommits(r), tips, tips, FetchDepth - 2).seen]

\* Parents of c in the fetched (shallow) repository.
LocalParents(r, loc, c) == IF c \in loc.deep THEN Parents(r, c) ELSE <<>>

\* Commits reachable from c in the fetched repository, c included; a commit
\* whose parents were not fetched reaches itself only.
LocalAncestors(r, loc, c) ==
    IF c \notin loc.deep THEN {c}
    ELSE Walk(r, loc.deep, {c}, {c}, NumCommits(r)).seen

\* ------------------------------------------------------------------------
\* Commit records
\* ------------------------------------------------------------------------
\* One character (or run of characters) of a log line: the text it stands for
\* and, for a commit hash, the commit.
Tok(t) == [t |-> t, h |-> 0]

HashTok(c) == [t |-> "%H", h |-> c]

Pipe == Tok("|")

\* The subject line of a commit; the subject of commit r.pipe contains a '|'.
Subject(r, c) == IF c = r.pipe THEN <<Tok("su"), Pipe, Tok("bj")>> ELSE <<Tok("subj")>>

CommitInfo(h, msg) == [Hash |-> h, Message |-> msg]

Hashes(commits) == {commits[i].Hash : i \in 1..Len(commits)}

\* ------------------------------------------------------------------------
\* Library walker: Client.getCommitsBetweenBranches (diff.go:447-498)
\* ------------------------------------------------------------------------
\* repo.Log(From: sourceHash): go-git's pre-order iterator, parents in order,
\* every commit once.  It gives the commits it yields and the error that ends
\* the iteration, "nil" at the end of the ancestry.  A commit object of the
\* shallow boundary still names its parents, which were not fetched; a
\* library that takes the boundary into account (aware) ends there, one that
\* does not looks the parent up and fails with "object not found".
\* The iterator is [stack, seen, out, err, done]; PreorderIter takes n steps
\* of it, n \div 2 of them and then the remaining ones, and stops when the
\* iteration is done.  One step takes the commit on top of the stack.
RECURSIVE PreorderIter(_, _, _, _, _)
PreorderIter(r, loc, aware, it, n) ==
    IF it.done \/ n = 0 THEN it
    ELSE IF n = 1
    THEN IF it.stack = <<>> THEN [it EXCEPT !.done = TRUE]
         ELSE LET c == Head(it.stack) IN
              IF c \in it.seen THEN [it EXCEPT !.stack = Tail(it.stack)]
              ELSE IF c \notin loc.have
              THEN [it EXCEPT !.err = "object not found", !.done = TRUE]
              ELSE [it EXCEPT
                       !.stack = (IF aware THEN LocalParents(r, loc, c)
                                  ELSE Parents(r, c)) \o Tail(it.stack),
                       !.seen = {d : d \in it.seen \cup {c}},
                       !.out = Append(it.out, c)]
    ELSE PreorderIter(r, loc, aware,
                      PreorderIter(r, loc, aware, it, n \div 2), n - (n \div 2))

\* Every commit is visited once and puts at most two parents on the stack, so
\* the iteration is done within 3 * NumCommits + 2 steps.
\* An iteration from a commit that is not in the repository fails at once.
Log(r, loc, aware, from) ==
    IF from \notin loc.have THEN [commits |-> <<>>, err |-> "object not found"]
    ELSE LET it == PreorderIter(r, loc, aware,
                                [stack |-> <<from>>, seen |-> {}, out |-> <<>>,
                                 err |-> "nil", done |-> FALSE],
                                3 * NumCommits(r) + 2)
         IN [commits |-> it.out, err |-> it.err]

\* commit.IsAncestor(other): the commit is found on the walk that starts at
\* `other' (which visits `other' itself first).
IsAncestor(r, loc, commit, other) == commit \in LocalAncestors(r, loc, other)

\* commitIter.ForEach(func(commit) error {...}) of diff.go:463-490: the
\* callback on every commit of iter in order, until it returns an error; at
\* the end of iter the error that ended the iteration.  The commits of iter
\* are taken as its first half followed by its second half.
RECURSIVE ForEachCommit(_, _, _, _, _, _, _)
ForEachCommit(r, loc, iter, iterErr, commits, sourceCommit, targetHash) ==
    IF iter = <<>> THEN [commits |-> commits, err |-> iterErr]
    ELSE IF Len(iter) = 1
    THEN LET commit == Head(iter) IN
         IF commit = targetHash
         THEN [commits |-> commits, err |-> "reached target"]
         ELSE LET isAncestor == IsAncestor(r, loc, commit, sourceCommit)
                  cs == IF ~isAncestor
                        THEN Append(commits, CommitInfo(commit, Subject(r, commit)))
                        ELSE commits
              IN IF Len(cs) >= CommitLimit
                 THEN [commits |-> cs, err |-> "commit limit reached"]
                 ELSE [commits |-> cs, err |-> iterErr]
    ELSE LET k == Len(iter) \div 2
             first == ForEachCommit(r, loc, SubSeq(iter, 1, k), "nil", commits,
                                    sourceCommit, targetHash)
         IN IF first.err # "nil" THEN first
            ELSE ForEachCommit(r, loc, SubSeq(iter, k + 1, Len(iter)), iterErr,
                               first.commits, sourceCommit, targetHash)

\* A walker that returns every error of the iteration, the two it raises
\* itself to stop the walk included.
getCommitsBetweenBranches_NoCleanUp(r, loc, aware, sourceHash, targetHash) ==
    LET commitIter == Log(r, loc, aware, sourceHash)
        res == ForEachCommit(r, loc, commitIter.commits, commitIter.err, NoCommits,
                             sourceHash, targetHash)
    IN IF res.err # "nil"
       THEN [commits |-> NoCommits, err |-> res.err]
       ELSE [commits |-> res.commits, err |-> "nil"]

getCommitsBetweenBranches(r, loc, aware, sourceHash, targetHash) ==
    LET commitIter == Log(r, loc, aware, sourceHash)
        res == ForEachCommit(r, loc, commitIter.commits, commitIter.err, NoCommits,
                             sourceHash, targetHash)
    IN IF res.err \notin {"nil", "reached target", "commit limit reached"}
       THEN [commits |-> NoCommits, err |-> res.err]
       ELSE [commits |-> res.commits, err |-> "nil"]

\* ------------------------------------------------------------------------
\* Native walker: FastClient.getCommitsBetweenBranchesFast
\* (fast_diff.go:215-267)
\* ------------------------------------------------------------------------
SetMax(S) == CHOOSE x \in S : \A y \in S : y <= x

\* The n newest commits of S, newest first: the i-th of them has i - 1
\* commits of S that are newer.
NewestFirst(S, n) ==
    LET T == {c : c \in S}
        k == IF Cardinality(T) < n THEN Cardinality(T) ELSE n
    IN [i \in 1..k |-> CHOOSE c \in T : Cardinality({d \in T : d > c}) = i - 1]

\* A log without --max-count.
GitLog_NoMaxCount(r, loc, source, target) ==
    NewestFirst(LocalAncestors(r, loc, source) \ LocalAncestors(r, loc, target),
                NumCommits(r))

\* git log target..source --max-count=20: the commits reachable from source
\* and not from target, in commit-date order, newest first.
GitLog(r, loc, source, target) ==
    NewestFirst(LocalAncestors(r, loc, source) \ LocalAncestors(r, loc, target),
                MaxCount)

\* --pretty=format:%H|%s|%an|%ae|%ai
FormatLine(r, c) ==
    <<HashTok(c), Pipe>> \o Subject(r, c)
        \o <<Pipe, Tok("%an"), Pipe, Tok("%ae"), Pipe, Tok("%ai")>>

\* strings.Split(line, "|")
RECURSIVE SplitOn(_, _, _)
SplitOn(line, sep, cur) ==
    IF line = <<>> THEN <<cur>>
    ELSE IF Head(line) = sep THEN <<cur>> \o SplitOn(Tail(line), sep, <<>>)
    ELSE SplitOn(Tail(line), sep, Append(cur, Head(line)))

Split(line, sep) == SplitOn(line, sep, <<>>)

\* the loop of fast_diff.go:235-264 over the lines of the log output
ParseLogLines(lines, commits) ==
    LET Malformed(line) == Len(Split(line, Pipe)) # LogFields
        WellFormed(line) == ~Malformed(line)
        kept == SelectSeq(lines, WellFormed)
    IN commits \o [i \in 1..Len(kept) |->
                     LET parts == Split(kept[i], Pipe)
                     IN CommitInfo(parts[1][1].h, parts[2])]

getCommitsBetweenBranchesFast(r, loc, sourceBranch, targetBranch) ==
    LET log == GitLog(r, loc, sourceBranch, targetBranch)
        output == [i \in 1..Len(log) |-> FormatLine(r, log[i])]
    IN IF Len(output) = 0
       THEN [commits |-> NoCommits, err |-> "nil"]
       ELSE [commits |-> ParseLogLines(output, NoCommits), err |-> "nil"]

\* ------------------------------------------------------------------------
\* Default-branch resolvers.  A repository handle h holds the remote-tracking
\* branches (refs/remotes/origin/<b>) and the target of the symbolic reference
\* refs/remotes/origin/HEAD (<<>> when that reference does not exist).
\* ------------------------------------------------------------------------
\* diff.go:144 and fast_diff.go:35
defaultBranches == <<"main", "master", "dev", "develop">>

NoRef == <<>>

RemoteRef(b) == <<"refs", "remotes", "origin", b>>

Last(s) == s[Len(s)]

\* The reference stored under `name' in the handle.
StoredReference(h, name) ==
    IF name = RemoteRef("HEAD")
    THEN IF h.originHEAD = NoRef
         THEN [err |-> "reference not found", type |-> "none", target |-> NoRef]
         ELSE [err |-> "nil", type |-> "symbolic", target |-> h.originHEAD]
    ELSE IF Len(name) = 4 /\ Last(name) \in h.tracking
         THEN [err |-> "nil", type |-> "hash", target |-> NoRef]
         ELSE [err |-> "reference not found", type |-> "none", target |-> NoRef]

\* repo.Reference(name, resolved) of go-git: with resolved = true a symbolic
\* reference is followed to the reference it points at.
Reference(h, name, resolved) ==
    LET ref == StoredReference(h, name) IN
    IF resolved /\ ref.type = "symbolic" THEN StoredReference(h, ref.target) ELSE ref

\* The loop over defaultBranches: the first name, in order, that is in
\* `existing'; "" when the loop ends without a return.
RECURSIVE FirstExisting(_, _)
FirstExisting(names, existing) ==
    IF names = <<>> THEN ""
    ELSE IF Head(names) \in existing THEN Head(names)
    ELSE FirstExisting(Tail(names), existing)

\* A resolver with no final fallback.
detectDefaultBranch_NoFallback(h) ==
    LET found == {b \in Range(defaultBranches) : Reference(h, RemoteRef(b), TRUE).err = "nil"}
        branchName == FirstExisting(defaultBranches, found)
        headRef == Reference(h, RemoteRef("HEAD"), TRUE)
    IN IF branchName # "" THEN branchName
       ELSE IF /\ headRef.err = "nil"
               /\ headRef.type = "symbolic"
               /\ Len(headRef.target) >= 3
               /\ headRef.target[2] = "remotes"
            THEN Last(headRef.target)
            ELSE ""

\* Client.detectDefaultBranch (diff.go:141-170)
detectDefaultBranch(h) ==
    LET found == {b \in Range(defaultBranches) : Reference(h, RemoteRef(b), TRUE).err = "nil"}
        branchName == FirstExisting(defaultBranches, found)
        headRef == Reference(h, RemoteRef("HEAD"), TRUE)
    IN IF branchName # "" THEN branchName
       ELSE IF /\ headRef.err = "nil"
               /\ headRef.type = "symbolic"
               /\ Len(headRef.target) >= 3
               /\ headRef.target[2] = "remotes"
            THEN Last(headRef.target)
            ELSE "main"

\* FastClient.detectDefaultBranchFast (fast_diff.go:19-46)
detectDefaultBranchFast(h) ==
    LET shown == {b \in Range(defaultBranches) : b \in h.tracking}
        branchName == FirstExisting(defaultBranches, shown)
    IN IF h.originHEAD # NoRef /\ Len(h.originHEAD) >= 2
       THEN Last(h.originHEAD)
       ELSE IF branchName # "" THEN branchName
       ELSE "main"

\* ------------------------------------------------------------------------
\* A differencing call.  Both strategies keep, per call:
\*   pc             the next step, "idle" before the call, "done" after it
\*   op             "GetDiff" or "GetDiffWithCommits"
\*   tempDir        "none", "exists" or "removed"
\*   deferred       whether defer os.RemoveAll(tempDir) is registered
\*   tracking, originHEAD   the refs of the repository in tempDir
\*   result         <<>> for a nil result, else <<the value returned>>
\*   err            "nil" or the error returned
\*   errNames       the branch names that the text of the error holds
\*   hint           the branch that the push hint of the error names, "" if
\*                  the error has no push hint
\*   steps          the commands run so far
\*   failed         those of them that returned an error
\* ------------------------------------------------------------------------
Idle ==
    [pc |-> "idle", op |-> "", tempDir |-> "none", deferred |-> FALSE,
     tracking |-> {}, originHEAD |-> NoRef,
     sourceBranch |-> "", targetBranch |-> "", defaultBranch |-> "",
     diff |-> <<>>, result |-> <<>>, err |-> "nil", errNames |-> {}, hint |-> "",
     steps |-> <<>>, failed |-> {}]

\* strings.TrimPrefix(branch, "origin/"); a ref is the sequence of its
\* '/'-separated segments, the cleaned name is its single remaining segment.
TrimOrigin(ref) == IF Len(ref) >= 2 /\ ref[1] = "origin" THEN Tail(ref) ELSE ref

CleanBranch(ref) == TrimOrigin(ref)[1]

\* A return that runs no deferred call.
RunDeferred_Skipped(c) == c.tempDir

\* What runs when the function returns: the deferred os.RemoveAll(tempDir).
RunDeferred(c) == IF c.deferred THEN "removed" ELSE c.tempDir

\* A return that hands out what the call has so far along with the error.
ReturnError_PartialResult(c, step, e) ==
    [c EXCEPT !.pc = "done", !.err = e,
              !.result = <<[Diff |-> c.diff, Commits |-> <<>>,
                            DefaultBranch |-> c.defaultBranch]>>,
              !.steps = Append(@, step), !.failed = @ \cup {step},
              !.tempDir = RunDeferred(c)]

\* return nil, fmt.Errorf(...)
ReturnError(c, step, e) ==
    [c EXCEPT !.pc = "done", !.err = e, !.result = <<>>,
              !.steps = Append(@, step), !.failed = @ \cup {step},
              !.tempDir = RunDeferred(c)]

\* return &GitResult{...}, nil   /   return diff, nil
ReturnResult(c, step, res) ==
    [c EXCEPT !.pc = "done", !.err = "nil", !.result = <<res>>,
              !.steps = Append(@, step), !.tempDir = RunDeferred(c)]

Continue(c, step, next) == [c EXCEPT !.pc = next, !.steps = Append(@, step)]

\* A step whose error does not end the call.
ContinueAfterError(c, step, next) ==
    [c EXCEPT !.pc = next, !.steps = Append(@, step), !.failed = @ \cup {step}]

\* The caller runs one call at a time.
Busy(c) == c.pc \notin {"idle", "done"}

Handle(c) == [tracking |-> c.tracking, originHEAD |-> c.originHEAD]

\* The patch between the trees of two commits.
DiffText(from, to) == <<"diff", from, to>>

GitResult(diff, commits, defaultBranch) ==
    [Diff |-> diff, Commits |-> commits, DefaultBranch |-> defaultBranch]

\* ------------------------------------------------------------------------
\* Library strategy: Client.GetDiff (diff.go:189-277) and
\* Client.GetDiffWithCommits (diff.go:340-445)
\* ------------------------------------------------------------------------
\* os.MkdirTemp, defer os.RemoveAll, strings.TrimPrefix
LibMkdirTemp ==
    /\ lib.pc = "idle" /\ ~Busy(fast)
    /\ \E op \in {"GetDiff", "GetDiffWithCommits"}, ok \in BOOLEAN :
         LET c == [lib EXCEPT !.op = op] IN
         lib' = IF ~ok
                THEN ReturnError(c, "MkdirTemp", "failed to create temp directory")
                ELSE Continue([c EXCEPT !.tempDir = "exists", !.deferred = TRUE,
                                        !.sourceBranch = CleanBranch(args.source),
                                        !.targetBranch = CleanBranch(args.target)],
                              "MkdirTemp", "clone")
    /\ UNCHANGED <<repo, walkPc, libWalk, fastWalk, remote, args, fast, response, parse, repoURL, repoInfo, given, run>>

\* git.PlainClone(tempDir, false, {SingleBranch: false, NoCheckout: true})
LibPlainClone ==
    /\ lib.pc = "clone"
    /\ \E ok \in BOOLEAN, head \in {NoRef, RemoteRef(remote.head)} :
         lib' = IF ~ok
                THEN ReturnError(lib, "PlainClone", "failed to clone repository")
                ELSE Continue([lib EXCEPT !.tracking = remote.branches,
                                          !.originHEAD = head],
                              "PlainClone", "remote")
    /\ UNCHANGED <<repo, walkPc, libWalk, fastWalk, remote, args, fast, response, parse, repoURL, repoInfo, given, run>>

\* repo.Remote("origin")
LibRemote ==
    /\ lib.pc = "remote"
    /\ \E ok \in BOOLEAN :
         lib' = IF ~ok
                THEN ReturnError(lib, "Remote", "failed to get remote")
                ELSE Continue(lib, "Remote", "fetch")
    /\ UNCHANGED <<repo, walkPc, libWalk, fastWalk, remote, args, fast, response, parse, repoURL, repoInfo, given, run>>

\* The first of the ref-specs whose branch the remote does not have: the one
\* that the fetch reports.
FirstMissing(branches, existing) ==
    IF branches[1] \notin existing THEN branches[1] ELSE branches[2]

\* remote.Fetch with the two ref-specs, the target's first.  The error of the
\* library is "couldn't find remote ref" followed by the ref it did not find;
\* GetDiff adds a push hint that names sourceBranch (diff.go:237), and
\* GetDiffWithCommits adds none (diff.go:385-387).
LibFetch ==
    /\ lib.pc = "fetch"
    /\ \E netOk \in BOOLEAN :
         LET missing == {lib.sourceBranch, lib.targetBranch} \ remote.branches
             notFound == FirstMissing(<<lib.targetBranch, lib.sourceBranch>>,
                                      remote.branches)
         IN
         lib' = IF missing # {}
                THEN IF lib.op = "GetDiff"
                     THEN ReturnError([lib EXCEPT !.errNames = {notFound, lib.sourceBranch},
                                                  !.hint = lib.sourceBranch],
                                      "Fetch",
                                      "failed to fetch branches: couldn't find remote ref; push hint")
                     ELSE ReturnError([lib EXCEPT !.errNames = {notFound}],
                                      "Fetch",
                                      "failed to fetch branches: couldn't find remote ref")
                ELSE IF ~netOk
                THEN ReturnError(lib, "Fetch", "failed to fetch branches")
                ELSE Continue([lib EXCEPT !.tracking =
                                   @ \cup {lib.sourceBranch, lib.targetBranch}],
                              "Fetch",
                              IF lib.op = "GetDiff" THEN "target" ELSE "detect")
    /\ UNCHANGED <<repo, walkPc, libWalk, fastWalk, remote, args, fast, response, parse, repoURL, repoInfo, given, run>>

\* defaultBranch := c.detectDefaultBranch(repo)
LibDetectDefaultBranch ==
    /\ lib.pc = "detect"
    /\ lib' = Continue([lib EXCEPT !.defaultBranch = detectDefaultBranch(Handle(lib))],
                       "detectDefaultBranch", "target")
    /\ UNCHANGED <<repo, walkPc, libWalk, fastWalk, remote, args, fast, response, parse, repoURL, repoInfo, given, run>>

\* repo.Reference(origin/target, true) and repo.CommitObject
LibTargetRef ==
    /\ lib.pc = "target"
    /\ \E objOk \in BOOLEAN :
         lib' = IF Reference(Handle(lib), RemoteRef(lib.targetBranch), TRUE).err # "nil"
                THEN ReturnError(lib, "Reference", "failed to find target branch")
                ELSE IF ~objOk
                THEN ReturnError(lib, "CommitObject", "failed to get target commit")
                ELSE Continue(lib, "Reference", "source")
    /\ UNCHANGED <<repo, walkPc, libWalk, fastWalk, remote, args, fast, response, parse, repoURL, repoInfo, given, run>>

LibSourceRef ==
    /\ lib.pc = "source"
    /\ \E objOk \in BOOLEAN :
         lib' = IF Reference(Handle(lib), RemoteRef(lib.sourceBranch), TRUE).err # "nil"
                THEN ReturnError(lib, "Reference", "failed to find source branch")
                ELSE IF ~objOk
                THEN ReturnError(lib, "CommitObject", "failed to get source commit")
                ELSE Continue(lib, "Reference", "patch")
    /\ UNCHANGED <<repo, walkPc, libWalk, fastWalk, remote, args, fast, response, parse, repoURL, repoInfo, given, run>>

\* targetCommit.Patch(sourceCommit); GetDiff returns here
LibPatch ==
    /\ lib.pc = "patch"
    /\ \E ok \in BOOLEAN :
         LET d == DiffText(TargetTip(repo), SourceTip(repo)) IN
         lib' = IF ~ok
                THEN ReturnError(lib, "Patch", "failed to generate patch")
                ELSE IF lib.op = "GetDiff"
                THEN ReturnResult([lib EXCEPT !.diff = d], "Patch", d)
                ELSE Continue([lib EXCEPT !.diff = d], "Patch", "commits")
    /\ UNCHANGED <<repo, walkPc, libWalk, fastWalk, remote, args, fast, response, parse, repoURL, repoInfo, given, run>>

\* A call that returns the error of the commit enumeration.
LibCommits_ErrorReturned ==
    /\ lib.pc = "commits"
    /\ \E ok \in BOOLEAN, aware \in BOOLEAN :
         LET w == IF ok
                  THEN getCommitsBetweenBranches(repo, FetchedCommits(repo), aware,
                                                 SourceTip(repo), TargetTip(repo))
                  ELSE [commits |-> NoCommits, err |-> "failed to get commit log"]
         IN lib' = IF w.err # "nil"
                   THEN ReturnError(lib, "getCommitsBetweenBranches", w.err)
                   ELSE ReturnResult(lib, "getCommitsBetweenBranches",
                                     GitResult(lib.diff, w.commits, lib.defaultBranch))
    /\ UNCHANGED <<repo, walkPc, libWalk, fastWalk, remote, args, fast, response, parse, repoURL, repoInfo, given, run>>

\* c.getCommitsBetweenBranches; on error the call goes on with no commits
LibCommits ==
    /\ lib.pc = "commits"
    /\ \E ok \in BOOLEAN, aware \in BOOLEAN :
         LET w == IF ok
                  THEN getCommitsBetweenBranches(repo, FetchedCommits(repo), aware,
                                                 SourceTip(repo), TargetTip(repo))
                  ELSE [commits |-> NoCommits, err |-> "failed to get commit log"]
             commits == IF w.err # "nil" THEN NoCommits ELSE w.commits
             c == IF w.err # "nil"
                  THEN [lib EXCEPT !.failed = @ \cup {"getCommitsBetweenBranches"}]
                  ELSE lib
         IN lib' = ReturnResult(c, "getCommitsBetweenBranches",
                                GitResult(lib.diff, commits, lib.defaultBranch))
    /\ UNCHANGED <<repo, walkPc, libWalk, fastWalk, remote, args, fast, response, parse, repoURL, repoInfo, given, run>>

\* ------------------------------------------------------------------------
\* Native strategy: FastClient.GetDiffFast (fast_diff.go:48-116) and
\* FastClient.GetDiffWithCommits (fast_diff.go:123-213)
\* ------------------------------------------------------------------------
FastMkdirTemp ==
    /\ fast.pc = "idle" /\ ~Busy(lib)
    /\ \E op \in {"GetDiff", "GetDiffWithCommits"}, ok \in BOOLEAN :
         LET c == [fast EXCEPT !.op = op] IN
         fast' = IF ~ok
                 THEN ReturnError(c, "MkdirTemp", "failed to create temp directory")
                 ELSE Continue([c EXCEPT !.tempDir = "exists", !.deferred = TRUE,
                                         !.sourceBranch = CleanBranch(args.source),
                                         !.targetBranch = CleanBranch(args.target)],
                               "MkdirTemp", "init")
    /\ UNCHANGED <<repo, walkPc, libWalk, fastWalk, remote, args, lib, response, parse, repoURL, repoInfo, given, run>>

\* git init
FastInit ==
    /\ fast.pc = "init"
    /\ \E ok \in BOOLEAN :
         fast' = IF ~ok
                 THEN ReturnError(fast, "git init", "failed to init git repository")
                 ELSE Continue(fast, "git init", "remote")
    /\ UNCHANGED <<repo, walkPc, libWalk, fastWalk, remote, args, lib, response, parse, repoURL, repoInfo, given, run>>

\* git remote add origin repoURL
FastRemoteAdd ==
    /\ fast.pc = "remote"
    /\ \E ok \in BOOLEAN :
         fast' = IF ~ok
                 THEN ReturnError(fast, "git remote add", "failed to add remote")
                 ELSE Continue(fast, "git remote add", "fetch")
    /\ UNCHANGED <<repo, walkPc, libWalk, fastWalk, remote, args, lib, response, parse, repoURL, repoInfo, given, run>>

\* git fetch origin source:source target:target --depth=N.  The fetch also
\* updates the remote-tracking refs of the two branches; whether it creates
\* refs/remotes/origin/HEAD depends on the git binary.  What git says about
\* a ref it did not find is printed; the error returned is the exit status
\* (fast_diff.go:166-170), so it holds no branch name and no hint.
FastFetch ==
    /\ fast.pc = "fetch"
    /\ \E netOk \in BOOLEAN, head \in {NoRef, RemoteRef(remote.head)} :
         LET missing == {fast.sourceBranch, fast.targetBranch} \ remote.branches IN
         fast' = IF missing # {} \/ ~netOk
                 THEN ReturnError(fast, "git fetch", "failed to fetch branches")
                 ELSE Continue([fast EXCEPT !.tracking =
                                    {fast.sourceBranch, fast.targetBranch},
                                            !.originHEAD = head],
                               "git fetch", "diff")
    /\ UNCHANGED <<repo, walkPc, libWalk, fastWalk, remote, args, lib, response, parse, repoURL, repoInfo, given, run>>

\* After the diff: GetDiffFast returns it, GetDiffWithCommits goes on.
AfterDiff(c, step) ==
    LET d == DiffText(TargetTip(repo), SourceTip(repo)) IN
    IF c.op = "GetDiff"
    THEN ReturnResult([c EXCEPT !.diff = d], step, d)
    ELSE Continue([c EXCEPT !.diff = d], step, "commits")

\* A diff step that gives up after the direct form.
FastDiff_NoRetry ==
    /\ fast.pc = "diff"
    /\ \E ok \in BOOLEAN :
         fast' = IF ~ok
                 THEN ReturnError(fast, "git diff", "failed to generate diff")
                 ELSE AfterDiff(fast, "git diff")
    /\ UNCHANGED <<repo, walkPc, libWalk, fastWalk, remote, args, lib, response, parse, repoURL, repoInfo, given, run>>

\* git diff target source
FastDiff ==
    /\ fast.pc = "diff"
    /\ \E ok \in BOOLEAN :
         fast' = IF ~ok
                 THEN ContinueAfterError(fast, "git diff", "retry")
                 ELSE AfterDiff(fast, "git diff")
    /\ UNCHANGED <<repo, walkPc, libWalk, fastWalk, remote, args, lib, response, parse, repoURL, repoInfo, given, run>>

\* git diff origin/target origin/source
FastDiffRetry ==
    /\ fast.pc = "retry"
    /\ \E ok \in BOOLEAN :
         fast' = IF ~ok
                 THEN ReturnError(fast, "git diff origin/", "failed to generate diff")
                 ELSE AfterDiff(fast, "git diff origin/")
    /\ UNCHANGED <<repo, walkPc, libWalk, fastWalk, remote, args, lib, response, parse, repoURL, repoInfo, given, run>>

\* c.getCommitsBetweenBranchesFast; on error the call goes on with no commits
FastCommits ==
    /\ fast.pc = "commits"
    /\ \E ok \in BOOLEAN :
         LET w == IF ok
                  THEN getCommitsBetweenBranchesFast(repo, FetchedCommits(repo),
                                                     SourceTip(repo), TargetTip(repo))
                  ELSE [commits |-> NoCommits, err |-> "failed to get commit log"]
             commits == IF w.err # "nil" THEN NoCommits ELSE w.commits
         IN fast' = IF w.err # "nil"
                    THEN ContinueAfterError([fast EXCEPT !.result =
                                                <<GitResult(fast.diff, commits, "")>>],
                                            "git log", "detect")
                    ELSE Continue([fast EXCEPT !.result =
                                      <<GitResult(fast.diff, commits, "")>>],
                                  "git log", "detect")
    /\ UNCHANGED <<repo, walkPc, libWalk, fastWalk, remote, args, lib, response, parse, repoURL, repoInfo, given, run>>

\* defaultBranch := c.detectDefaultBranchFast(tempDir); return the result
FastDetectDefaultBranch ==
    /\ fast.pc = "detect"
    /\ LET d == detectDefaultBranchFast(Handle(fast))
           commits == fast.result[1].Commits
       IN fast' = ReturnResult([fast EXCEPT !.defaultBranch = d],
                               "detectDefaultBranchFast",
                               GitResult(fast.diff, commits, d))
    /\ UNCHANGED <<repo, walkPc, libWalk, fastWalk, remote, args, lib, response, parse, repoURL, repoInfo, given, run>>

\* ------------------------------------------------------------------------
\* SpecCall: one call of each strategy against the same remote
\* ------------------------------------------------------------------------
BranchNames == {"main", "master", "dev", "develop", "feature", "release"}

MaxBranches == 3

Remotes ==
    {rm \in [branches : SUBSET BranchNames, head : BranchNames] :
        /\ "feature" \in rm.branches
        /\ Cardinality(rm.branches) <= MaxBranches
        /\ rm.head \in rm.branches}

\* "unpushed" is a branch of the caller's own repository that was never
\* pushed: no remote has it.
Args ==
    [source : {<<"feature">>, <<"origin", "feature">>, <<"unpushed">>},
     target : {<<"main">>, <<"origin", "develop">>, <<"release">>}]

CallRepos ==
    {[base |-> 1, behind |-> 0, ahead |-> 2, merged |-> FALSE, pipe |-> 0],
     [base |-> 2, behind |-> 1, ahead |-> 1, merged |-> TRUE, pipe |-> 0],
     [base |-> 1, behind |-> 1, ahead |-> 0, merged |-> FALSE, pipe |-> 0]}

NoRemote == [branches |-> {}, head |-> ""]

NoArgs == [source |-> <<>>, target |-> <<>>]

InitCall ==
    /\ repo \in CallRepos
    /\ remote \in Remotes
    /\ args \in Args
    /\ lib = Idle
    /\ fast = Idle
    /\ repoURL = <<>>
    /\ repoInfo = NoInfo
    /\ given = NoSettings
    /\ run = NotStarted
    /\ walkPc = {}
    /\ libWalk = NotRun
    /\ fastWalk = NotRun
    /\ response = <<>>
    /\ parse = NotParsing

NextCall ==
    \/ LibMkdirTemp \/ LibPlainClone \/ LibRemote \/ LibFetch
    \/ LibDetectDefaultBranch \/ LibTargetRef \/ LibSourceRef \/ LibPatch
    \/ LibCommits
    \/ FastMkdirTemp \/ FastInit \/ FastRemoteAdd \/ FastFetch
    \/ FastDiff \/ FastDiffRetry \/ FastCommits \/ FastDetectDefaultBranch

SpecCall == InitCall /\ [][NextCall]_vars

\* ------------------------------------------------------------------------
\* Strings of the response parser.  A string is the sequence of its symbols;
\* a symbol is one character or a run of characters that no operation of the
\* parser takes apart (a code fence, "json", "TITLE:", a JSON member).
\* ------------------------------------------------------------------------
\* the three backquotes of a code fence
Fence == "~~~"

\* "title":"T"   "body":"B"   "body":5
TitleMember == "\"title\":\"T\""

BodyMember == "\"body\":\"B\""

BadBodyMember == "\"body\":5"

IsSpace(ch) == ch \in {" ", "\n", "\t", "\r"}

\* strings.TrimSpace
RECURSIVE TrimLeft(_)
TrimLeft(str) ==
    IF str # <<>> /\ IsSpace(Head(str)) THEN TrimLeft(Tail(str)) ELSE str

RECURSIVE TrimRight(_)
TrimRight(str) ==
    IF str # <<>> /\ IsSpace(str[Len(str)])
    THEN TrimRight(SubSeq(str, 1, Len(str) - 1)) ELSE str

TrimSpace(str) == TrimRight(TrimLeft(str))

\* strings.HasPrefix / HasSuffix / TrimPrefix / TrimSuffix
HasPrefix(str, prefix) ==
    Len(str) >= Len(prefix) /\ SubSeq(str, 1, Len(prefix)) = prefix

HasSuffix(str, suffix) ==
    Len(str) >= Len(suffix)
        /\ SubSeq(str, Len(str) - Len(suffix) + 1, Len(str)) = suffix

TrimPrefix(str, prefix) ==
    IF HasPrefix(str, prefix) THEN SubSeq(str, Len(prefix) + 1, Len(str)) ELSE str

TrimSuffix(str, suffix) ==
    IF HasSuffix(str, suffix) THEN SubSeq(str, 1, Len(str) - Len(suffix)) ELSE str

\* The offsets (from 0, as in Go) at which substr occurs in str.
Occurrences(str, substr) ==
    {i \in 0..(Len(str) - Len(substr)) : SubSeq(str, i + 1, i + Len(substr)) = substr}

SetMin(S) == CHOOSE x \in S : \A y \in S : x <= y

\* strings.Index / LastIndex / Contains
Index(str, substr) ==
    IF Occurrences(str, substr) = {} THEN -1 ELSE SetMin(Occurrences(str, substr))

LastIndex(str, substr) ==
    IF Occurrences(str, substr) = {} THEN -1 ELSE SetMax(Occurrences(str, substr))

Contains(str, substr) == Index(str, substr) >= 0

\* str[from:to] of Go
Slice(str, from, to) == SubSeq(str, from + 1, to)

\* strings.Join(lines, "\n")
RECURSIVE Join(_, _)
Join(lines, sep) ==
    IF lines = <<>> THEN <<>>
    ELSE IF Len(lines) = 1 THEN lines[1]
    ELSE lines[1] \o <<sep>> \o Join(Tail(lines), sep)

\* ------------------------------------------------------------------------
\* encoding/json: json.Unmarshal([]byte(jsonStr), &jsonResult) into
\* struct{Title, Body string}
\* ------------------------------------------------------------------------
JSONMembers == {TitleMember, BodyMember, BadBodyMember}

\* The input is one JSON object: '{', members separated by ',', '}', with
\* white space allowed between the tokens.
ValidObject(tokens) ==
    /\ Len(tokens) >= 2
    /\ tokens[1] = "{"
    /\ tokens[Len(tokens)] = "}"
    /\ LET inner == SubSeq(tokens, 2, Len(tokens) - 1) IN
       \/ inner = <<>>
       \/ /\ Len(inner) % 2 = 1
          /\ \A i \in 1..Len(inner) :
                IF i % 2 = 1 THEN inner[i] \in JSONMembers ELSE inner[i] = ","

\* The members are stored in order; a member of the wrong type is skipped and
\* makes the call return an UnmarshalTypeError after the others were stored.
RECURSIVE StoreMembers(_, _)
StoreMembers(tokens, v) ==
    IF tokens = <<>> THEN v
    ELSE LET m == Head(tokens) IN
         StoreMembers(Tail(tokens),
                      IF m = TitleMember THEN [v EXCEPT !.Title = <<"T">>]
                      ELSE IF m = BodyMember THEN [v EXCEPT !.Body = <<"B">>]
                      ELSE v)

Unmarshal(jsonStr, v) ==
    LET tokens == SelectSeq(jsonStr, LAMBDA ch : ~IsSpace(ch)) IN
    IF ~ValidObject(tokens)
    THEN [err |-> "syntax error", v |-> v]
    ELSE [err |-> IF \E i \in 1..Len(tokens) : tokens[i] = BadBodyMember
                  THEN "UnmarshalTypeError" ELSE "nil",
          v |-> StoreMembers(tokens, v)]

\* ------------------------------------------------------------------------
\* cleanTitle (generate.go:1039-1060)
\* ------------------------------------------------------------------------
\* generate.go:1055  if len(title) > 80
MaxTitleLen == 80
\* generate.go:1056  title[:77] + "..."
KeptTitleLen == 77

prefixes ==
    << <<"Title:">>,
       <<"PR", " ", "Title:">>,
       <<"Pull", " ", "Request", " ", "Title:">>,
       <<"**", "Title:", "**">>,
       <<"clipboard-emoji", " ", "**", "Title:", "**">> >>

\* The number of bytes of a symbol.
SymbolLen(ch) ==
    CASE ch = Fence -> 3
      [] ch = "json" -> 4
      [] ch = "TITLE:" -> 6
      [] ch = "BODY:" -> 5
      [] ch = "Title:" -> 6
      [] ch = "**" -> 2
      [] ch = "PR" -> 2
      [] ch = "Pull" -> 4
      [] ch = "Request" -> 7
      [] ch = "clipboard-emoji" -> 4
      [] ch = "e-acute" -> 2
      [] ch = TitleMember -> 11
      [] ch = BodyMember -> 10
      [] ch = BadBodyMember -> 8
      [] OTHER -> 1

\* len(str): the bytes of the first half of the symbols and those of the
\* second half
RECURSIVE ByteLen(_)
ByteLen(str) ==
    IF str = <<>> THEN 0
    ELSE IF Len(str) = 1 THEN SymbolLen(str[1])
    ELSE LET k == Len(str) \div 2
         IN ByteLen(SubSeq(str, 1, k)) + ByteLen(SubSeq(str, k + 1, Len(str)))

\* str[:n]: the symbols that lie within the first n bytes; a symbol the cut
\* falls into is left as a fragment
FirstBytes(str, n) ==
    IF n <= 0 THEN <<>>
    ELSE LET k == Cardinality({i \in 1..Len(str) : ByteLen(SubSeq(str, 1, i)) <= n})
             whole == SubSeq(str, 1, k)
         IN IF k = Len(str) \/ ByteLen(whole) = n THEN whole
            ELSE Append(whole, "fragment")

\* the loop over the prefixes; nothing is left to remove from an empty title
RECURSIVE TrimPrefixes(_, _)
TrimPrefixes(title, ps) ==
    IF title = <<>> \/ ps = <<>> THEN title
    ELSE TrimPrefixes(TrimPrefix(title, Head(ps)), Tail(ps))

\* generate.go:1042-1052: the prefixes, the bold markers and the white space
\* are removed
Normalized(title) ==
    LET t1 == TrimSpace(TrimPrefixes(title, prefixes))
    IN TrimSpace(TrimSuffix(TrimPrefix(t1, <<"**">>), <<"**">>))

cleanTitle(title) ==
    LET t2 == Normalized(title)
    IN IF ByteLen(t2) > MaxTitleLen
       THEN FirstBytes(t2, KeptTitleLen) \o <<".", ".", ".">>
       ELSE t2

\* ------------------------------------------------------------------------
\* Generator.parseResponse (generate.go:901-1037), one operator per method.
\* Each gives [ret, title, body, json]: whether the method returns, the
\* Result it returns and jsonResult after it.
\* ------------------------------------------------------------------------
NoReturn(json) == [ret |-> FALSE, title |-> <<>>, body |-> <<>>, json |-> json]

Return(title, body, json) == [ret |-> TRUE, title |-> title, body |-> body, json |-> json]

\* Method 1: a JSON block between fence markers (generate.go:913-926)
Method1(resp, json) ==
    LET jsonStart == Index(resp, <<Fence, "json">>) IN
    IF jsonStart < 0 THEN NoReturn(json)
    ELSE LET from == jsonStart + Len(<<Fence, "json">>)
             jsonEnd == Index(Slice(resp, from, Len(resp)), <<Fence>>)
         IN IF jsonEnd < 0 THEN NoReturn(json)
            ELSE LET jsonStr == TrimSpace(Slice(resp, from, from + jsonEnd))
                     u == Unmarshal(jsonStr, json)
                 IN IF u.err = "nil"
                    THEN Return(cleanTitle(u.v.Title), u.v.Body, u.v)
                    ELSE NoReturn(u.v)

\* Method 2: from the first '{' to the last '}' (generate.go:928-941)
Method2(resp, json) ==
    LET jsonStart == Index(resp, <<"{">>)
        jsonEnd == LastIndex(resp, <<"}">>)
    IN IF jsonStart >= 0 /\ jsonEnd > jsonStart
       THEN LET u == Unmarshal(Slice(resp, jsonStart, jsonEnd + 1), json) IN
            IF u.err = "nil"
            THEN Return(cleanTitle(u.v.Title), u.v.Body, u.v)
            ELSE NoReturn(u.v)
       ELSE NoReturn(json)

\* The last heading in place of the first.
FirstHeading_Last(lines) ==
    LET hs == {i \in 1..Len(lines) : HasPrefix(TrimSpace(lines[i]), <<"#", " ">>)}
    IN IF hs = {} THEN 0 ELSE SetMax(hs)

\* The index of the first line that starts with "# " once trimmed, 0 if none.
FirstHeading(lines) ==
    LET hs == {i \in 1..Len(lines) : HasPrefix(TrimSpace(lines[i]), <<"#", " ">>)}
    IN IF hs = {} THEN 0 ELSE SetMin(hs)

\* Method 3: markdown heading (generate.go:943-971)
Method3(resp, json) ==
    IF ~Contains(resp, <<"#", " ">>) THEN NoReturn(json)
    ELSE LET lines == Split(resp, "\n")
             i == FirstHeading(lines)
         IN IF i = 0 THEN NoReturn(json)
            ELSE LET title == TrimSpace(TrimPrefix(TrimSpace(lines[i]), <<"#", " ">>))
                     bodyLines == SubSeq(lines, i + 1, Len(lines))
                 IN Return(cleanTitle(title), TrimSpace(Join(bodyLines, "\n")), json)

\* The loop of generate.go:981-990 over the lines: [title, bodyStart, bodyLines]
RECURSIVE LegacyLines(_, _)
LegacyLines(lines, st) ==
    IF lines = <<>> THEN st
    ELSE LET line == TrimSpace(Head(lines)) IN
         LegacyLines(Tail(lines),
            IF HasPrefix(line, <<"TITLE:">>)
            THEN [st EXCEPT !.title = TrimSpace(TrimPrefix(line, <<"TITLE:">>))]
            ELSE IF HasPrefix(line, <<"BODY:">>)
            THEN [st EXCEPT !.bodyStart = TRUE]
            ELSE IF st.bodyStart
            THEN [st EXCEPT !.bodyLines = Append(@, line)]
            ELSE st)

\* Method 4: TITLE:/BODY: (generate.go:973-1001)
Method4(resp, json) ==
    IF ~HasPrefix(resp, <<"TITLE:">>) THEN NoReturn(json)
    ELSE LET st == LegacyLines(Split(resp, "\n"),
                               [title |-> <<>>, bodyStart |-> FALSE, bodyLines |-> <<>>])
             body == TrimSpace(Join(st.bodyLines, "\n"))
         IN IF st.title # <<>>
            THEN Return(cleanTitle(st.title), body, json)
            ELSE NoReturn(json)

\* The index of the first line that is not blank, 0 if none.
FirstMeaningful(lines) ==
    LET ms == {i \in 1..Len(lines) : TrimSpace(lines[i]) # <<>>}
    IN IF ms = {} THEN 0 ELSE SetMin(ms)

\* A fallback that refuses a first line of which cleanTitle leaves nothing.
Fallback_EmptyTitleIsError(resp, json) ==
    LET lines == Split(TrimSpace(resp), "\n")
        i == FirstMeaningful(lines)
        title == IF i = 0 THEN <<>> ELSE TrimSpace(lines[i])
        bodyStartIndex == i
        body == IF bodyStartIndex < Len(lines)
                THEN TrimSpace(Join(SubSeq(lines, bodyStartIndex + 1, Len(lines)), "\n"))
                ELSE <<>>
    IN IF Len(lines) = 0 \/ cleanTitle(title) = <<>>
       THEN [ret |-> TRUE, err |-> "empty response from AI",
             title |-> <<>>, body |-> <<>>, json |-> json]
       ELSE [ret |-> TRUE, err |-> "nil",
             title |-> cleanTitle(title), body |-> body, json |-> json]

\* Fallback (generate.go:1003-1037); err is "empty response from AI" when
\* the list of lines is empty
Fallback(resp, json) ==
    LET lines == Split(TrimSpace(resp), "\n")
        i == FirstMeaningful(lines)
        title == IF i = 0 THEN <<>> ELSE TrimSpace(lines[i])
        bodyStartIndex == i
        body == IF bodyStartIndex < Len(lines)
                THEN TrimSpace(Join(SubSeq(lines, bodyStartIndex + 1, Len(lines)), "\n"))
                ELSE <<>>
    IN IF Len(lines) = 0
       THEN [ret |-> TRUE, err |-> "empty response from AI",
             title |-> <<>>, body |-> <<>>, json |-> json]
       ELSE [ret |-> TRUE, err |-> "nil",
             title |-> cleanTitle(title), body |-> body, json |-> json]

\* ------------------------------------------------------------------------
\* The call of parseResponse, method by method
\* ------------------------------------------------------------------------
Result(title, body) == [Title |-> title, Body |-> body]

\* A cascade in which a decoded fenced block does not end the call.
Try_NoEarlyReturn(m, n, next) ==
    IF m.ret /\ n # 1
    THEN [parse EXCEPT !.pc = "done", !.json = m.json, !.by = n,
                       !.result = <<Result(m.title, m.body)>>]
    ELSE [parse EXCEPT !.pc = next, !.json = m.json]

\* One method of the cascade: it returns its Result, or the call goes on to
\* the next method with the jsonResult it left.
Try(m, n, next) ==
    IF m.ret
    THEN [parse EXCEPT !.pc = "done", !.json = m.json, !.by = n,
                       !.result = <<Result(m.title, m.body)>>]
    ELSE [parse EXCEPT !.pc = next, !.json = m.json]

\* response = strings.TrimSpace(response); var jsonResult struct{...}
ParseStart ==
    /\ parse.pc = "start"
    /\ parse' = [parse EXCEPT !.pc = "m1", !.resp = TrimSpace(response),
                              !.json = EmptyJSON]
    /\ UNCHANGED <<repo, walkPc, libWalk, fastWalk, remote, args, lib, fast, response, repoURL, repoInfo, given, run>>

ParseFencedJSON ==
    /\ parse.pc = "m1"
    /\ parse' = Try(Method1(parse.resp, parse.json), 1, "m2")
    /\ UNCHANGED <<repo, walkPc, libWalk, fastWalk, remote, args, lib, fast, response, repoURL, repoInfo, given, run>>

ParseJSONObject ==
    /\ parse.pc = "m2"
    /\ parse' = Try(Method2(parse.resp, parse.json), 2, "m3")
    /\ UNCHANGED <<repo, walkPc, libWalk, fastWalk, remote, args, lib, fast, response, repoURL, repoInfo, given, run>>

ParseMarkdown ==
    /\ parse.pc = "m3"
    /\ parse' = Try(Method3(parse.resp, parse.json), 3, "m4")
    /\ UNCHANGED <<repo, walkPc, libWalk, fastWalk, remote, args, lib, fast, response, repoURL, repoInfo, given, run>>

ParseLegacy ==
    /\ parse.pc = "m4"
    /\ parse' = Try(Method4(parse.resp, parse.json), 4, "m5")
    /\ UNCHANGED <<repo, walkPc, libWalk, fastWalk, remote, args, lib, fast, response, repoURL, repoInfo, given, run>>

ParseFallback ==
    /\ parse.pc = "m5"
    /\ LET m == Fallback(parse.resp, parse.json) IN
       parse' = IF m.err # "nil"
                THEN [parse EXCEPT !.pc = "done", !.by = 5, !.err = m.err,
                                   !.result = <<>>]
                ELSE Try(m, 5, "done")
    /\ UNCHANGED <<repo, walkPc, libWalk, fastWalk, remote, args, lib, fast, response, repoURL, repoInfo, given, run>>

\* ------------------------------------------------------------------------
\* SpecParse: parseResponse on every response made of at most MaxPieces pieces
\* ------------------------------------------------------------------------
MaxPieces == 4

Pieces ==
    { <<Fence, "json">>,
      <<Fence>>,
      <<"{", TitleMember, ",", BodyMember, "}">>,
      <<"{", TitleMember, "}">>,
      <<"{", TitleMember, ",", BadBodyMember, "}">>,
      <<"#", " ">>,
      <<"TITLE:">>,
      <<"BODY:">>,
      <<"x">>,
      <<"\n">>,
      <<" ">>,
      <<"{">>,
      <<"Title:">> }

RECURSIVE Flatten(_)
Flatten(ps) == IF ps = <<>> THEN <<>> ELSE Head(ps) \o Flatten(Tail(ps))

\* Responses written line by line, of at most MaxLines lines.
MaxLines == 3

Lines ==
    { <<"#", " ", "x">>,
      <<"#", " ", "y">>,
      <<" ", "#", " ", "x">>,
      <<"#", "#", " ", "x">>,
      <<"TITLE:", " ", "x">>,
      <<"TITLE:">>,
      <<"BODY:", " ", "y">>,
      <<"BODY:">>,
      <<"y">>,
      <<>>,
      <<"{", TitleMember, ",", BodyMember, "}">>,
      <<"{">> }

Documents ==
    {Join(ls, "\n") : ls \in UNION {[1..n -> Lines] : n \in 1..MaxLines}}

Responses ==
    {Flatten(ps) : ps \in UNION {[1..n -> Pieces] : n \in 0..MaxPieces}}
        \cup Documents

InitParse ==
    /\ response \in Responses
    /\ parse = [NotParsing EXCEPT !.pc = "start"]
    /\ repo = [base |-> 1, behind |-> 0, ahead |-> 0, merged |-> FALSE, pipe |-> 0]
    /\ walkPc = {}
    /\ libWalk = NotRun
    /\ fastWalk = NotRun
    /\ remote = NoRemote
    /\ args = NoArgs
    /\ lib = Idle
    /\ fast = Idle
    /\ repoURL = <<>>
    /\ repoInfo = NoInfo
    /\ given = NoSettings
    /\ run = NotStarted

NextParse ==
    \/ ParseStart \/ ParseFencedJSON \/ ParseJSONObject
    \/ ParseMarkdown \/ ParseLegacy \/ ParseFallback

SpecParse == InitParse /\ [][NextParse]_vars

\* ------------------------------------------------------------------------
\* SpecTitle: cleanTitle on its own, as parseResponse calls it on the title of
\* every method (generate.go:921, 937, 967, 997, 1023).  The titles are runs
\* of one character, of one byte ("a") or of two ("e-acute"), alone or behind
\* a prefix, behind two prefixes, and between bold markers that may enclose
\* the prefix.
\* ------------------------------------------------------------------------
MaxRun == 85

Repeat(ch, n) == [i \in 1..n |-> ch]

Titles ==
    {pre \o Repeat(ch, n) \o suf :
        pre \in {<<>>, <<"Title:", " ">>, <<"**">>, <<"**", "Title:", " ">>,
                 <<"PR", " ", "Title:", " ", "Title:", " ">>},
        suf \in {<<>>, <<"**">>},
        ch \in {"a", "e-acute"},
        n \in 0..MaxRun}

InitTitle ==
    /\ response \in Titles
    /\ parse = [NotParsing EXCEPT !.pc = "title"]
    /\ repo = [base |-> 1, behind |-> 0, ahead |-> 0, merged |-> FALSE, pipe |-> 0]
    /\ walkPc = {}
    /\ libWalk = NotRun
    /\ fastWalk = NotRun
    /\ remote = NoRemote
    /\ args = NoArgs
    /\ lib = Idle
    /\ fast = Idle
    /\ repoURL = <<>>
    /\ repoInfo = NoInfo
    /\ given = NoSettings
    /\ run = NotStarted

\* Title: cleanTitle(title)
CleanTitle ==
    /\ parse.pc = "title"
    /\ parse' = [parse EXCEPT !.pc = "cleaned",
                              !.result = <<Result(cleanTitle(response), <<>>)>>]
    /\ UNCHANGED <<repo, walkPc, libWalk, fastWalk, remote, args, lib, fast, response, repoURL, repoInfo, given, run>>

NextTitle == CleanTitle

SpecTitle == InitTitle /\ [][NextTitle]_vars

\* ------------------------------------------------------------------------
\* extractRepoInfo (generate.go:859-892).  A URL is a sequence of symbols:
\* "https", "://", "git", "@", ":", "/", ".git", host names, path segments
\* and credentials.
\* ------------------------------------------------------------------------
SSHPrefix == <<"git", "@", "github.com", ":">>

HTTPSPrefix == <<"https", "://", "github.com", "/">>

\* A sanitizer that cuts at the first '@' in place of the last.
extractRepoInfo_FirstAt(url) ==
    IF url = <<>> THEN <<>>
    ELSE LET u1 == IF HasPrefix(url, SSHPrefix)
                   THEN HTTPSPrefix \o TrimPrefix(url, SSHPrefix)
                   ELSE url
             u2 == TrimSuffix(u1, <<".git">>)
             atIndex == Index(u2, <<"@">>)
             protocolEnd == Index(u2, <<"://">>)
         IN IF Contains(u2, <<"@">>) /\ atIndex # -1 /\ protocolEnd # -1
            THEN Slice(u2, 0, protocolEnd + 1) \o Slice(u2, atIndex + 1, Len(u2))
            ELSE u2

extractRepoInfo(url) ==
    IF url = <<>> THEN <<>>
    ELSE LET u1 == IF HasPrefix(url, SSHPrefix)
                   THEN HTTPSPrefix \o TrimPrefix(url, SSHPrefix)
                   ELSE url
             u2 == TrimSuffix(u1, <<".git">>)
             atIndex == LastIndex(u2, <<"@">>)
             protocolEnd == Index(u2, <<"://">>)
         IN IF Contains(u2, <<"@">>) /\ atIndex # -1 /\ protocolEnd # -1
            THEN Slice(u2, 0, protocolEnd + 1) \o Slice(u2, atIndex + 1, Len(u2))
            ELSE u2

\* ------------------------------------------------------------------------
\* SpecURL: extractRepoInfo on HTTPS URLs, with and without credentials, and
\* on SSH-form URLs
\* ------------------------------------------------------------------------
NoCredentials == <<>>

\* user:token@, token@, and a password that holds an '@' itself
Credentials ==
    { NoCredentials,
      <<"alice", ":", "ghp_abc123", "@">>,
      <<"ghp_abc123", "@">>,
      <<"bob", ":", "p", "@", "ss", "@">> }

CredentialSymbols == {"alice", "ghp_abc123", "bob", "p", "ss"}

Hosts == { <<"github.com">>, <<"gitlab.com">>, <<"git.example.org", ":", "8443">> }

SSHHosts == { <<"github.com">>, <<"gitlab.com">>, <<"git.example.org">> }

Paths ==
    { <<"owner", "/", "repo">>,
      <<"owner", "/", "group", "/", "repo">>,
      <<"o", "/", "r">>,
      <<"owner", "/", "repo", "@", "v2">> }

Suffixes == { <<>>, <<".git">> }

HTTPSURL(cred, host, path, suffix) ==
    <<"https", "://">> \o cred \o host \o <<"/">> \o path \o suffix

SSHURL(host, path, suffix) == <<"git", "@">> \o host \o <<":">> \o path \o suffix

URLs ==
    {HTTPSURL(c, h, p, x) : c \in Credentials, h \in Hosts, p \in Paths, x \in Suffixes}
        \cup {SSHURL(h, p, x) : h \in SSHHosts, p \in Paths, x \in Suffixes}
        \cup {<<>>}

InitURL ==
    /\ repoURL \in URLs
    /\ repoInfo = NoInfo
    /\ given = NoSettings
    /\ run = NotStarted
    /\ response = <<>>
    /\ parse = NotParsing
    /\ repo = [base |-> 1, behind |-> 0, ahead |-> 0, merged |-> FALSE, pipe |-> 0]
    /\ walkPc = {}
    /\ libWalk = NotRun
    /\ fastWalk = NotRun
    /\ remote = NoRemote
    /\ args = NoArgs
    /\ lib = Idle
    /\ fast = Idle

\* repoInfo := extractRepoInfo(repoURL)
ExtractRepoInfo ==
    /\ ~repoInfo.done
    /\ repoInfo' = [done |-> TRUE, url |-> extractRepoInfo(repoURL)]
    /\ UNCHANGED <<repo, walkPc, libWalk, fastWalk, remote, args, lib, fast,
                   response, parse, repoURL, given, run>>

NextURL == ExtractRepoInfo

SpecURL == InitURL /\ [][NextURL]_vars

\* ------------------------------------------------------------------------
\* SpecWalk: both walkers on every history of the family
\* ------------------------------------------------------------------------
BehindChoices == {0, 1, 2, FetchDepth - 1, FetchDepth}

\* histories whose common part is as deep as the fetch
DeepRepos ==
    {r \in [base : {FetchDepth}, behind : {0, 1}, ahead : {0, 1},
            merged : BOOLEAN, pipe : {0}] :
        /\ r.merged => r.behind >= 1}

Repos ==
    {r \in [base : 1..MaxBase, behind : BehindChoices, ahead : 0..MaxAhead,
            merged : BOOLEAN, pipe : 0..1] :
        /\ r.merged => r.behind >= 1}
      \cup DeepRepos

\* pipe = 1 marks the newest commit of the source branch
WithPipe(r) == [r EXCEPT !.pipe = IF r.pipe = 1 THEN SourceTip(r) ELSE 0]

InitWalk ==
    /\ repo \in {WithPipe(r) : r \in Repos}
    /\ walkPc = {}
    /\ libWalk = NotRun
    /\ fastWalk = NotRun
    /\ remote = NoRemote
    /\ args = NoArgs
    /\ lib = Idle
    /\ fast = Idle
    /\ repoURL = <<>>
    /\ repoInfo = NoInfo
    /\ given = NoSettings
    /\ run = NotStarted
    /\ response = <<>>
    /\ parse = NotParsing

LibWalk ==
    /\ "lib" \notin walkPc
    /\ \E aware \in BOOLEAN :
         libWalk' = getCommitsBetweenBranches(repo, FetchedCommits(repo), aware,
                                              SourceTip(repo), TargetTip(repo))
    /\ walkPc' = walkPc \cup {"lib"}
    /\ UNCHANGED <<repo, fastWalk, remote, args, lib, fast, response, parse, repoURL, repoInfo, given, run>>

FastWalk ==
    /\ "fast" \notin walkPc
    /\ fastWalk' = getCommitsBetweenBranchesFast(repo, FetchedCommits(repo),
                                                 SourceTip(repo), TargetTip(repo))
    /\ walkPc' = walkPc \cup {"fast"}
    /\ UNCHANGED <<repo, libWalk, remote, args, lib, fast, response, parse, repoURL, repoInfo, given, run>>

NextWalk == LibWalk \/ FastWalk

SpecWalk == InitWalk /\ [][NextWalk]_vars

\* ------------------------------------------------------------------------
\* SpecConfig: run of cmd/main.go from the settings to the AI client
\* ------------------------------------------------------------------------
\* how many settings of one run vary over all their places at once
MaxFree == 2

\* strings.ToLower over the provider names of the model
ToLower(s) == IF s = "OpenAI" THEN "openai" ELSE s

\* the values a setting can have in one place; "" is an absent flag, key or
\* variable
PlaceValues(place, s) ==
    IF s = "provider"
    THEN CASE place = "cli"  -> {"", "openai", "OpenAI"}
           [] place = "file" -> {"", "ollama", "openwebui"}
           [] place = "env"  -> {"", "gemini", "claude"}
    ELSE CASE place = "cli"  -> {"", "cli"}
           [] place = "file" -> {"", "yml"}
           [] place = "env"  -> {"", "env"}

\* a setting that does not vary is given on the command line only
Fixed(place, s) ==
    IF place # "cli" THEN "" ELSE IF s = "provider" THEN "openai" ELSE "cli"

\* the assignments of one place in which the settings of free vary
PlaceChoices(place, free) ==
    { [s \in Settings |-> IF s \in free THEN v[s] ELSE Fixed(place, s)] :
          v \in { w \in [free -> UNION {PlaceValues(place, s) : s \in free}] :
                     \A s \in free : w[s] \in PlaceValues(place, s) } }

GivenSettings ==
    UNION {
        { [cli |-> c, file |-> f, env |-> e, clickupTaskID |-> ct, jiraTaskID |-> jt] :
              c \in PlaceChoices("cli", free),
              f \in PlaceChoices("file", free),
              e \in PlaceChoices("env", free),
              ct \in {"", "task"},
              jt \in {"", "issue"} } :
        free \in { S \in SUBSET Settings : Cardinality(S) <= MaxFree } }

\* the settings whose value run takes from the configuration file when the
\* flag variable is empty
MergedInRun == {"provider", "model", "apiKey", "language"}

\* the default of getXFromEnvOrFlag
Default(s) == IF s = "language" THEN "en" ELSE ""

getEnvOrDefault(env, s, defaultValue) == IF env[s] # "" THEN env[s] ELSE defaultValue

getFromEnvOrFlag(flags, env, s) ==
    IF flags[s] # "" THEN flags[s] ELSE getEnvOrDefault(env, s, Default(s))

GetProviderBaseURL(cfg) ==
    LET provider == ToLower(cfg["provider"]) IN
    IF cfg["providerBaseURL"] # "" THEN cfg["providerBaseURL"]
    ELSE CASE provider = "openai"    -> "https://api.openai.com"
           [] provider = "gemini"    -> "https://generativelanguage.googleapis.com"
           [] provider = "ollama"    -> "http://localhost:11434"
           [] provider = "openwebui" -> "http://localhost:3000"
           [] OTHER                  -> ""

Validate(cfg) ==
    LET provider == ToLower(cfg["provider"]) IN
    IF cfg["repo"] = "" THEN "repository URL is required"
    ELSE IF cfg["source"] = "" THEN "source branch is required"
    ELSE IF cfg["provider"] = "" THEN "provider is required"
    ELSE IF cfg["model"] = "" THEN "model is required"
    ELSE IF provider \notin {"openai", "ollama", "gemini", "openwebui"}
         THEN "provider must be 'openai', 'ollama', 'gemini', or 'openwebui'"
    ELSE IF provider \in {"openai", "gemini"} /\ cfg["apiKey"] = ""
         THEN "API key is required when using OpenAI or Gemini provider"
    ELSE IF provider \in {"ollama", "openwebui"} /\ GetProviderBaseURL(cfg) = ""
         THEN "provider base URL is required"
    ELSE IF cfg["clickupTaskID"] # "" /\ cfg["clickupPAT"] = ""
         THEN "ClickUp PAT is required when task ID is provided"
    ELSE IF cfg["jiraTaskID"] # "" /\ cfg["jiraBaseURL"] = ""
         THEN "Jira base URL is required when task ID is provided"
    ELSE IF cfg["jiraTaskID"] # "" /\ cfg["jiraUsername"] = ""
         THEN "Jira username is required when task ID is provided"
    ELSE IF cfg["jiraTaskID"] # "" /\ cfg["jiraAPIToken"] = ""
         THEN "Jira API token is required when task ID is provided"
    ELSE IF cfg["clickupTaskID"] # "" /\ cfg["jiraTaskID"] # ""
         THEN "cannot use both ClickUp and Jira task IDs at the same time"
    ELSE "nil"

\* the provider switch of run
NewClient(cfg, geminiOK) ==
    CASE cfg["provider"] = "openai"    -> "nil"
      [] cfg["provider"] = "ollama"    -> "nil"
      [] cfg["provider"] = "gemini"    ->
             IF geminiOK THEN "nil" ELSE "failed to create Gemini client"
      [] cfg["provider"] = "openwebui" -> "nil"
      [] OTHER                         -> "unsupported provider"

InitConfig ==
    /\ given \in GivenSettings
    /\ run = [NotStarted EXCEPT !.pc = "start", !.flags = given.cli]
    /\ repoURL = <<>>
    /\ repoInfo = NoInfo
    /\ response = <<>>
    /\ parse = NotParsing
    /\ repo = [base |-> 1, behind |-> 0, ahead |-> 0, merged |-> FALSE, pipe |-> 0]
    /\ walkPc = {}
    /\ libWalk = NotRun
    /\ fastWalk = NotRun
    /\ remote = NoRemote
    /\ args = NoArgs
    /\ lib = Idle
    /\ fast = Idle

Others == <<repo, walkPc, libWalk, fastWalk, remote, args, lib, fast, response, parse,
            repoURL, repoInfo, given>>

RunFails(msg) == run' = [run EXCEPT !.pc = "done", !.err = msg]

\* the values of the configuration file go into the empty flag variables
MergeFile ==
    /\ run.pc = "start"
    /\ run' = [run EXCEPT !.pc = "merged",
                          !.flags = [s \in Settings |->
                                       IF s \in MergedInRun /\ run.flags[s] = ""
                                                            /\ given.file[s] # ""
                                       THEN given.file[s] ELSE run.flags[s]]]
    /\ UNCHANGED Others

\* the required settings, the detection of repository and branches, and the
\* construction of cfg
BuildConfig ==
    /\ run.pc = "merged"
    /\ \E detected \in BOOLEAN :
         LET finalProvider == getFromEnvOrFlag(run.flags, given.env, "provider")
             finalModel    == getFromEnvOrFlag(run.flags, given.env, "model")
         IN  IF finalProvider = "" THEN RunFails("provider is required")
             ELSE IF finalModel = "" THEN RunFails("model is required")
             ELSE IF ~detected THEN RunFails("auto-detection failed")
             ELSE run' = [run EXCEPT
                     !.pc = "validate",
                     !.built = TRUE,
                     !.cfg = [f \in ConfigFields |->
                                CASE f = "repo"          -> "url"
                                  [] f = "source"        -> "feature"
                                  [] f = "clickupTaskID" -> given.clickupTaskID
                                  [] f = "jiraTaskID"    -> given.jiraTaskID
                                  [] f = "provider"      -> finalProvider
                                  [] f = "model"         -> finalModel
                                  [] OTHER -> getFromEnvOrFlag(run.flags, given.env, f)]]
    /\ UNCHANGED Others

ValidateConfig ==
    /\ run.pc = "validate"
    /\ IF Validate(run.cfg) # "nil" THEN RunFails("configuration error")
       ELSE run' = [run EXCEPT !.pc = "describe", !.validated = TRUE]
    /\ UNCHANGED Others

\* the task description comes from ClickUp, from Jira or from the flag
FetchDescription ==
    /\ run.pc = "describe"
    /\ \E fetched \in BOOLEAN :
         IF run.cfg["clickupPAT"] # "" /\ run.cfg["clickupTaskID"] # ""
         THEN IF fetched THEN run' = [run EXCEPT !.pc = "git"]
              ELSE RunFails("failed to fetch ClickUp task")
         ELSE IF /\ run.cfg["jiraBaseURL"] # "" /\ run.cfg["jiraUsername"] # ""
                 /\ run.cfg["jiraAPIToken"] # "" /\ run.cfg["jiraTaskID"] # ""
         THEN IF fetched THEN run' = [run EXCEPT !.pc = "git"]
              ELSE RunFails("failed to fetch Jira issue")
         ELSE run' = [run EXCEPT !.pc = "git"]
    /\ UNCHANGED Others

\* GetDiffWithCommits of the chosen strategy
Analyze ==
    /\ run.pc = "git"
    /\ \E ok \in BOOLEAN :
         IF ok THEN run' = [run EXCEPT !.pc = "client", !.analyzed = TRUE]
         ELSE RunFails("failed to analyze git changes")
    /\ UNCHANGED Others

CreateClient ==
    /\ run.pc = "client"
    /\ \E geminiOK \in BOOLEAN :
         LET err == NewClient(run.cfg, geminiOK) IN
         IF err # "nil" THEN RunFails(err)
         ELSE run' = [run EXCEPT !.pc = "generate"]
    /\ UNCHANGED Others

Generate ==
    /\ run.pc = "generate"
    /\ \E ok \in BOOLEAN :
         IF ok THEN run' = [run EXCEPT !.pc = "done"]
         ELSE RunFails("failed to generate PR description")
    /\ UNCHANGED Others

NextConfig ==
    \/ MergeFile
    \/ BuildConfig
    \/ ValidateConfig
    \/ FetchDescription
    \/ Analyze
    \/ CreateClient
    \/ Generate

SpecConfig == InitConfig /\ [][NextConfig]_vars

\* ------------------------------------------------------------------------
\* Claims about the walkers
\* ------------------------------------------------------------------------
HashSeq(commits) == [i \in 1..Len(commits) |-> commits[i].Hash]

\* The commits of the remote history that are on source and not on target.
SourceOnly(r) == RemoteAncestors(r, SourceTip(r)) \ RemoteAncestors(r, TargetTip(r))

TargetIsAncestorOfSource(r) == TargetTip(r) \in RemoteAncestors(r, SourceTip(r))

\* C1: when the target tip is an ancestor of the source tip and the source
\* branch has k commits after it, each walker (library and native) returns
\* exactly those k commits, newest first, cut to the 20 newest.
C1_WalkersReturnCommitsAhead ==
    TargetIsAncestorOfSource(repo) =>
        /\ "lib" \in walkPc =>
              HashSeq(libWalk.commits) = NewestFirst(SourceOnly(repo), 20)
        /\ "fast" \in walkPc =>
              HashSeq(fastWalk.commits) = NewestFirst(SourceOnly(repo), 20)

\* C2: no commit that is the target tip or one of its ancestors is in the
\* list a walker returns.
C2_NoTargetAncestorListed ==
    (Hashes(libWalk.commits) \cup Hashes(fastWalk.commits))
        \cap RemoteAncestors(repo, TargetTip(repo)) = {}

\* the commits that git log outputs for target..source in the fetched
\* repository of the walk
Logged(r) == GitLog(r, FetchedCommits(r), SourceTip(r), TargetTip(r))

\* C27: the native walker returns one record for every commit that git log
\* outputs for target..source, in the order of the output, whatever the
\* subject of the commit contains.
C27_EveryLoggedCommitRecorded ==
    "fast" \in walkPc => HashSeq(fastWalk.commits) = Logged(repo)

\* ------------------------------------------------------------------------
\* Claims about the differencing calls
\* ------------------------------------------------------------------------
Succeeded(c) == c.pc = "done" /\ c.err = "nil" /\ c.op = "GetDiffWithCommits"

\* C3: for the same repository state and branch pair the library strategy and
\* the native strategy return the same set of commit hashes and the same diff
\* text.
C3_SameCommitsAndDiff ==
    (Succeeded(lib) /\ Succeeded(fast)) =>
        /\ Hashes(lib.result[1].Commits) = Hashes(fast.result[1].Commits)
        /\ lib.result[1].Diff = fast.result[1].Diff

\* C4: for the same remote and branch pair both strategies return the same
\* default-branch name.
C4_SameDefaultBranch ==
    (Succeeded(lib) /\ Succeeded(fast)) =>
        lib.result[1].DefaultBranch = fast.result[1].DefaultBranch

\* C5: the resolver of either strategy returns the last path segment of the
\* target of refs/remotes/origin/HEAD whenever that reference resolves, and
\* probes main, master, dev, develop in that order only when it does not.
HeadFirst(c) ==
    IF c.originHEAD # NoRef
    THEN c.result[1].DefaultBranch = Last(c.originHEAD)
    ELSE \/ c.result[1].DefaultBranch = FirstExisting(defaultBranches, c.tracking)
         \/ /\ FirstExisting(defaultBranches, c.tracking) = ""
            /\ c.result[1].DefaultBranch = "main"

C5_SymbolicHeadFirst ==
    /\ Succeeded(lib) => HeadFirst(lib)
    /\ Succeeded(fast) => HeadFirst(fast)

\* C6: when a call of GetDiff or GetDiffWithCommits has returned, in either
\* strategy and on every exit path, the temporary directory it created no
\* longer exists.
C6_TempDirRemoved ==
    /\ lib.pc = "done" => lib.tempDir # "exists"
    /\ fast.pc = "done" => fast.tempDir # "exists"

\* a failed library call and a successful native call, both of which had
\* created their directory
C6_Witness ==
    /\ lib.pc = "done" /\ lib.err = "failed to generate patch"
    /\ lib.tempDir = "removed"
    /\ fast.pc = "done" /\ fast.err = "nil" /\ fast.op = "GetDiff"
    /\ fast.tempDir = "removed"

\* ------------------------------------------------------------------------
\* Claims about parseResponse (SpecParse)
\* ------------------------------------------------------------------------
Returned == parse.pc = "done"

\* the response has no line that is not blank
Blank(resp) == TrimSpace(resp) = <<>>

\* C7: parseResponse called with the empty string or with white space only
\* returns an error and no Result.
C7_EmptyInputFails ==
    (Returned /\ Blank(response)) => (parse.err # "nil" /\ parse.result = <<>>)

\* C8: a Result returned by one of the JSON methods has both its title and its
\* body populated; an object that decodes without one of them is not returned.
C8_NeverPartiallyPopulated ==
    (Returned /\ parse.by \in {1, 2}) =>
        /\ parse.result[1].Title # <<>>
        /\ parse.result[1].Body # <<>>

\* What method n gives on the trimmed response when it runs alone, on a fresh
\* jsonResult.
Alone(n, resp) ==
    CASE n = 1 -> Method1(resp, EmptyJSON)
      [] n = 2 -> Method2(resp, EmptyJSON)
      [] n = 3 -> Method3(resp, EmptyJSON)
      [] n = 4 -> Method4(resp, EmptyJSON)
      [] OTHER -> Fallback(resp, EmptyJSON)

FirstSuccess(resp) == SetMin({n \in 1..5 : Alone(n, resp).ret})

\* C9: the methods run in the order fenced JSON, JSON object, markdown
\* heading, TITLE:/BODY:, fallback; the Result returned is the one that the
\* first method that succeeds on the response gives when it runs alone, so no
\* later method answers in its place and no method that failed before it has
\* changed what it returns.
C9_FirstSuccessWins ==
    (Returned /\ parse.err = "nil") =>
        LET resp == TrimSpace(response)
            n == FirstSuccess(resp)
        IN /\ parse.by = n
           /\ parse.result = <<Result(Alone(n, resp).title, Alone(n, resp).body)>>

\* the JSON object method failed on a member of the wrong type after it had
\* stored the title in jsonResult, and the heading method returned its own
C9_Witness ==
    /\ Returned
    /\ parse.by = 3
    /\ parse.json.Title = <<"T">>
    /\ parse.result = <<Result(<<"x">>, <<>>)>>

\* C10: for a response with at least one line that is not blank, whatever
\* else it holds, parseResponse returns a Result and no error.
C10_NonBlankGivesResult ==
    (Returned /\ ~Blank(response)) =>
        /\ parse.err = "nil"
        /\ Len(parse.result) = 1

\* a fence that is never closed followed by a brace that is never closed, and
\* a line of which cleanTitle leaves nothing: both answered by the fallback
C10_Witness ==
    /\ Returned
    /\ parse.by = 5
    /\ parse.err = "nil"
    /\ \/ Contains(parse.resp, <<Fence, "json", "{">>)
       \/ parse.resp = <<"Title:">>

\* C25: for a response with at least one line that is not blank, the Result
\* that parseResponse returns has a title that is not the empty string.
C25_TitleNeverEmpty ==
    (Returned /\ ~Blank(response) /\ Len(parse.result) = 1) =>
        parse.result[1].Title # <<>>

\* ------------------------------------------------------------------------
\* Claims about cleanTitle (SpecTitle)
\* ------------------------------------------------------------------------
\* the number of characters of a symbol: one for a character of several bytes
\* and for the byte left of one that was cut
RuneLen(ch) == IF ch \in {"e-acute", "clipboard-emoji", "fragment"} THEN 1 ELSE SymbolLen(ch)

RECURSIVE RuneCount(_)
RuneCount(str) ==
    IF str = <<>> THEN 0
    ELSE IF Len(str) = 1 THEN RuneLen(str[1])
    ELSE LET k == Len(str) \div 2
         IN RuneCount(SubSeq(str, 1, k)) + RuneCount(SubSeq(str, k + 1, Len(str)))

\* the symbols of a string that lie within its first n characters
FirstRunes(str, n) ==
    SubSeq(str, 1, Cardinality({i \in 1..Len(str) : RuneCount(SubSeq(str, 1, i)) <= n}))

Ellipsis == <<".", ".", ".">>

\* C11: the title that cleanTitle returns has at most 80 characters; a
\* normalized title of 80 characters or fewer is returned whole, and a longer
\* one is returned as its first 77 characters followed by '...', 80
\* characters in all.
C11_TitleCutTo80Characters ==
    parse.pc = "cleaned" =>
        LET t == Normalized(response)
            out == parse.result[1].Title
        IN /\ RuneCount(out) <= MaxTitleLen
           /\ RuneCount(t) <= MaxTitleLen => out = t
           /\ RuneCount(t) > MaxTitleLen =>
                 /\ out = FirstRunes(t, KeptTitleLen) \o Ellipsis
                 /\ RuneCount(out) = MaxTitleLen

\* the title begins with one of the prefixes that cleanTitle removes
BeginsWithPrefix(title) == \E i \in 1..Len(prefixes) : HasPrefix(title, prefixes[i])

\* the title is enclosed in bold markers
Wrapped(title) == HasPrefix(title, <<"**">>) /\ HasSuffix(title, <<"**">>)

\* C26: cleanTitle applied to a title it has returned gives that title again;
\* a title it has returned does not begin with one of the known prefixes and
\* is not enclosed in '**' markers.
C26_NormalizationIdempotent ==
    parse.pc = "cleaned" =>
        LET out == parse.result[1].Title
        IN /\ cleanTitle(out) = out
           /\ ~BeginsWithPrefix(out)
           /\ ~Wrapped(out)

\* the title was cut: its normalized form has more bytes than the limit
WasCut(title) == ByteLen(Normalized(title)) > MaxTitleLen

\* C30: a title that cleanTitle has cut is a sequence of whole characters of
\* the normalized title followed by '...', with no part of a character
\* between them; a title of at most 80 characters is not cut.
C30_NoCharacterSplit ==
    parse.pc = "cleaned" =>
        LET t == Normalized(response)
            out == parse.result[1].Title
        IN /\ \A i \in 1..Len(out) : out[i] # "fragment"
           /\ WasCut(response) =>
                 \E n \in 0..Len(t) : out = SubSeq(t, 1, n) \o Ellipsis
           /\ RuneCount(t) <= MaxTitleLen => ~WasCut(response)

\* ------------------------------------------------------------------------
\* Claims about the methods of parseResponse (SpecParse)
\* ------------------------------------------------------------------------
\* the lines of the response as the parser sees them
ResponseLines == Split(TrimSpace(response), "\n")

\* neither JSON method decodes anything from the response
NoJSON == ~Alone(1, TrimSpace(response)).ret /\ ~Alone(2, TrimSpace(response)).ret

\* a line that is '# ' followed by text, white space around it aside
IsHeading(line) == HasPrefix(TrimSpace(line), <<"#", " ">>)

HeadingText(line) == TrimSpace(TrimPrefix(TrimSpace(line), <<"#", " ">>))

Headings == {i \in 1..Len(ResponseLines) : IsHeading(ResponseLines[i])}

\* C12: when no JSON is decoded from the response and the response has a
\* heading line, the markdown method answers: the title is the text of the
\* first heading line (as cleanTitle leaves it) and the body is everything
\* after that line, trimmed.
C12_FirstHeadingIsTitle ==
    (Returned /\ NoJSON /\ Headings # {}) =>
        LET i == SetMin(Headings) IN
        /\ parse.by = 3
        /\ parse.result[1].Title = cleanTitle(HeadingText(ResponseLines[i]))
        /\ parse.result[1].Body =
              TrimSpace(Join(SubSeq(ResponseLines, i + 1, Len(ResponseLines)), "\n"))

\* two heading lines after a line of text: the first heading is the title, the
\* second is part of the body
C12_Witness ==
    /\ Returned
    /\ NoJSON
    /\ parse.resp = <<"y", "\n", "#", " ", "x", "\n", "#", " ", "y">>
    /\ parse.result = <<Result(<<"x">>, <<"#", " ", "y">>)>>

\* the lines after the first that start with 'BODY:' once trimmed
BodyMarkers ==
    {i \in 2..Len(ResponseLines) : HasPrefix(TrimSpace(ResponseLines[i]), <<"BODY:">>)}

LegacyTitleText == TrimSpace(TrimPrefix(ResponseLines[1], <<"TITLE:">>))

\* all the text after the first 'BODY:' marker, from the marker's own line on
TextAfterBodyMarker ==
    LET b == SetMin(BodyMarkers) IN
    TrimSpace(Join(<<TrimPrefix(TrimSpace(ResponseLines[b]), <<"BODY:">>)>>
                       \o SubSeq(ResponseLines, b + 1, Len(ResponseLines)), "\n"))

\* C13: when the response begins with 'TITLE:' followed by text, has a
\* 'BODY:' marker on a later line, and neither the JSON methods nor the
\* heading method apply, the title is the text after 'TITLE:' up to the end
\* of the line and the body is all the text after the 'BODY:' marker, the rest
\* of the marker's own line included.
C13_LegacyTitleAndBody ==
    (/\ Returned
     /\ NoJSON
     /\ Headings = {}
     /\ HasPrefix(TrimSpace(response), <<"TITLE:">>)
     /\ LegacyTitleText # <<>>
     /\ BodyMarkers # {}) =>
        /\ parse.by = 4
        /\ parse.result[1].Title = cleanTitle(LegacyTitleText)
        /\ parse.result[1].Body = TextAfterBodyMarker

\* ------------------------------------------------------------------------
\* Claims about extractRepoInfo (SpecURL)
\* ------------------------------------------------------------------------
\* C14: the display form of an HTTPS URL is the same whatever credentials the
\* URL embeds before the '@', it holds none of them, and it does not end with
\* '.git'.
C14_DisplayFormWithoutCredentials ==
    \A c \in Credentials, h \in Hosts, p \in Paths, x \in Suffixes :
        (repoInfo.done /\ repoURL = HTTPSURL(c, h, p, x)) =>
            /\ \A c2 \in Credentials :
                  extractRepoInfo(HTTPSURL(c2, h, p, x)) = repoInfo.url
            /\ \A i \in 1..Len(repoInfo.url) :
                  repoInfo.url[i] \notin CredentialSymbols \cup {"@"}
            /\ ~HasSuffix(repoInfo.url, <<".git">>)

\* the URL of the spec's example, and one whose password holds an '@'
C14_Witness ==
    \/ /\ repoInfo.done
       /\ repoURL = <<"https", "://", "alice", ":", "ghp_abc123", "@",
                      "github.com", "/", "owner", "/", "repo", ".git">>
       /\ repoInfo.url = <<"https", "://", "github.com", "/", "owner", "/", "repo">>
    \/ /\ repoInfo.done
       /\ repoURL = HTTPSURL(<<"bob", ":", "p", "@", "ss", "@">>, <<"gitlab.com">>,
                             <<"o", "/", "r">>, <<>>)
       /\ repoInfo.url = <<"https", "://", "gitlab.com", "/", "o", "/", "r">>

\* C15: an SSH-form URL git@host:owner/repo.git, for any host, becomes
\* https://host/owner/repo, the display form of the HTTPS URL of the same
\* repository.
C15_SSHFormToHTTPS ==
    \A h \in SSHHosts, p \in Paths, x \in Suffixes :
        (repoInfo.done /\ repoURL = SSHURL(h, p, x)) =>
            /\ repoInfo.url = HTTPSURL(NoCredentials, h, p, <<>>)
            /\ repoInfo.url = extractRepoInfo(HTTPSURL(NoCredentials, h, p, <<".git">>))

\* C28: of a URL without credentials the sanitizer removes the trailing
\* '.git' and replaces the SSH prefix and nothing else: the display form has
\* the host and the whole path of the URL, also when the path holds an '@'.
C28_HostAndPathPreserved ==
    repoInfo.done =>
        /\ \A h \in Hosts, p \in Paths, x \in Suffixes :
              repoURL = HTTPSURL(NoCredentials, h, p, x) =>
                  repoInfo.url = HTTPSURL(NoCredentials, h, p, <<>>)
        /\ \A h \in SSHHosts, p \in Paths, x \in Suffixes :
              repoURL = SSHURL(h, p, x) =>
                  repoInfo.url \in {HTTPSURL(NoCredentials, h, p, <<>>), SSHURL(h, p, <<>>)}

\* ------------------------------------------------------------------------
\* Claims about the errors of the differencing calls (SpecCall)
\* ------------------------------------------------------------------------
\* the branches of the call that the remote does not have
Missing(c) == {c.sourceBranch, c.targetBranch} \ remote.branches

\* the call returned from its fetch
ReturnedFromFetch(c) ==
    /\ c.pc = "done"
    /\ c.steps # <<>>
    /\ c.steps[Len(c.steps)] \in {"Fetch", "git fetch"}

MissingBranchNamed(c) ==
    (ReturnedFromFetch(c) /\ Missing(c) # {}) =>
        /\ c.err # "nil"
        /\ c.errNames \cap Missing(c) # {}
        /\ "unpushed" \in Missing(c) => c.hint = "unpushed"

\* C16: when the remote does not have one of the two branches, the call of
\* either strategy returns an error whose text names a missing branch; when
\* the missing branch is one that was never pushed, the error carries the
\* push hint for that branch.
C16_MissingBranchNamed == MissingBranchNamed(lib) /\ MissingBranchNamed(fast)

\* the commit enumeration of the call returned an error
EnumerationFailed(c) ==
    c.failed \cap {"getCommitsBetweenBranches", "git log"} # {}

EnumerationFailureIsNotFatal(c) ==
    (c.pc = "done" /\ EnumerationFailed(c)) =>
        /\ c.err = "nil"
        /\ Len(c.result) = 1
        /\ c.result[1].Diff = DiffText(TargetTip(repo), SourceTip(repo))
        /\ c.result[1].Commits = NoCommits

\* C17: when the commit enumeration fails after the diff was produced,
\* GetDiffWithCommits of either strategy returns no error and a result that
\* holds the diff it computed and no commits.
C17_EnumerationFailureIsNotFatal ==
    EnumerationFailureIsNotFatal(lib) /\ EnumerationFailureIsNotFatal(fast)

\* both strategies have returned from a call whose enumeration failed
C17_Witness ==
    /\ lib.pc = "done" /\ EnumerationFailed(lib) /\ lib.err = "nil"
    /\ fast.pc = "done" /\ EnumerationFailed(fast) /\ fast.err = "nil"

\* the steps whose failure ends the call: all but the commit enumeration and
\* the direct form of the native diff
Fatal(c) == c.failed \ {"getCommitsBetweenBranches", "git log", "git diff"}

Aborted(c) ==
    LET last == c.steps[Len(c.steps)] IN
    Fatal(c) # {} =>
        /\ c.pc = "done"
        /\ c.err # "nil"
        /\ c.result = <<>>
        /\ Fatal(c) = {last}

\* C18: a call in which the creation of the directory, the clone or init, the
\* remote, the fetch, the resolution of a ref or the diff has failed returns
\* an error and no result, and the failed step is the last one it ran.
C18_FailedStepAbortsCall == Aborted(lib) /\ Aborted(fast)

\* the library call stopped at the resolution of the source and the native call at
\* the diff, after the diff of its first attempt had failed too
C18_Witness ==
    /\ lib.pc = "done" /\ lib.err = "failed to get source commit"
    /\ lib.steps[Len(lib.steps)] = "CommitObject" /\ lib.result = <<>>
    /\ fast.pc = "done" /\ fast.err = "failed to generate diff"
    /\ fast.failed = {"git diff", "git diff origin/"} /\ fast.result = <<>>

\* the position of a step among the steps of the call, 0 if it did not run
StepIndex(c, step) ==
    LET is == {i \in 1..Len(c.steps) : c.steps[i] = step}
    IN IF is = {} THEN 0 ELSE SetMin(is)

Ran(c, step) == StepIndex(c, step) > 0

\* C19: the native call runs the direct form of the diff first and the
\* remote-qualified form only after the direct form failed, once; it reports
\* a diff failure only when both forms failed; and it runs no step twice.
C19_OneRetryOfTheDiff ==
    /\ Ran(fast, "git diff origin/") =>
          /\ "git diff" \in fast.failed
          /\ StepIndex(fast, "git diff origin/") = StepIndex(fast, "git diff") + 1
    /\ ("git diff" \in fast.failed /\ fast.pc # "retry") => Ran(fast, "git diff origin/")
    /\ fast.err = "failed to generate diff" =>
          {"git diff", "git diff origin/"} \subseteq fast.failed
    /\ \A i, j \in 1..Len(fast.steps) : fast.steps[i] = fast.steps[j] => i = j

\* a call whose direct diff failed and whose retry gave the diff
C19_Witness ==
    /\ fast.pc = "done"
    /\ fast.failed = {"git diff"}
    /\ Ran(fast, "git diff origin/")
    /\ fast.err = "nil"
    /\ Len(fast.result) = 1

\* the fields of a GitResult besides its three data fields: where a
\* degraded-mode indicator would be
Indicators(res) == DOMAIN res \ {"Diff", "Commits", "DefaultBranch"}

Signalled(c) ==
    (c.pc = "done" /\ c.failed # {}) =>
        \/ c.err # "nil"
        \/ /\ Len(c.result) = 1
           /\ c.op = "GetDiffWithCommits"
           /\ Indicators(c.result[1]) # {}
        \/ c.failed = {"git diff"}

\* C20: a call in which a step failed, the commit enumeration included,
\* returns an error or a result that says it is degraded; the one failure
\* that needs no signal is that of the direct diff when its retry succeeded.
C20_NoFailureSwallowed == Signalled(lib) /\ Signalled(fast)

\* ------------------------------------------------------------------------
\* Claims about the default branch and the commit list (SpecCall, SpecWalk)
\* ------------------------------------------------------------------------
\* the call has no symbolic HEAD to read and none of the four usual names
\* among its remote-tracking branches
NothingToDetect(c) ==
    /\ c.originHEAD = NoRef
    /\ c.tracking \cap Range(defaultBranches) = {}

Resolved(c, step) ==
    Ran(c, step) =>
        /\ step \notin c.failed
        /\ c.defaultBranch # ""
        /\ NothingToDetect(c) => c.defaultBranch = "main"
        /\ (c.pc = "done" /\ c.err = "nil") =>
               c.result[1].DefaultBranch = c.defaultBranch

\* C21: the default-branch resolver of either strategy never fails: once it
\* has run the call holds a branch name, which is "main" when there is no
\* symbolic HEAD and none of main, master, dev, develop is a known remote
\* branch, and the resolver is not among the steps that failed.
C21_ResolverNeverFails ==
    /\ Resolved(lib, "detectDefaultBranch")
    /\ Resolved(fast, "detectDefaultBranchFast")

\* both strategies have returned "main" for a remote that has neither a
\* readable HEAD nor one of the four names
C21_Witness ==
    /\ lib.pc = "done" /\ lib.err = "nil" /\ lib.op = "GetDiffWithCommits"
    /\ NothingToDetect(lib) /\ lib.result[1].DefaultBranch = "main"
    /\ fast.pc = "done" /\ fast.err = "nil" /\ fast.op = "GetDiffWithCommits"
    /\ NothingToDetect(fast) /\ fast.result[1].DefaultBranch = "main"

\* C22: the library walker ends for every history and branch pair, at the
\* target commit, at the cap, or at the end of the ancestry of the source (as
\* when the target tip is not an ancestor of the source tip), and in each case
\* it returns a list and no error.
C22_WalkEndsWithList ==
    "lib" \in walkPc => libWalk.err = "nil"

\* C23: the commit list that a walker of either strategy returns, and so the
\* one in the result of the call, has at most 20 entries however many commits
\* the source branch has.
C23_AtMostTwentyCommits ==
    /\ Len(libWalk.commits) <= 20
    /\ Len(fastWalk.commits) <= 20
    /\ (lib.pc = "done" /\ lib.err = "nil" /\ lib.op = "GetDiffWithCommits") =>
           Len(lib.result[1].Commits) <= 20
    /\ (fast.pc = "done" /\ fast.err = "nil" /\ fast.op = "GetDiffWithCommits") =>
           Len(fast.result[1].Commits) <= 20

\* a source branch with more than 20 commits of its own, of which the native
\* walker returned 20
C23_Witness ==
    /\ walkPc = {"lib", "fast"}
    /\ repo.ahead > 20
    /\ Len(fastWalk.commits) = 20

\* ------------------------------------------------------------------------
\* Claims about the settings of run
\* ------------------------------------------------------------------------
\* the value the priority CLI flag > .pullpoet.yml > environment > default
\* chooses for a setting
Chosen(g, s) ==
    IF g.cli[s] # "" THEN g.cli[s]
    ELSE IF g.file[s] # "" THEN g.file[s]
    ELSE IF g.env[s] # "" THEN g.env[s]
    ELSE Default(s)

\* C24: every setting of the configuration that run has built has the value
\* of the command line if given there, else that of .pullpoet.yml if given
\* there, else that of the environment variable, else the default.
C24_PriorityOfPlaces ==
    run.built => \A s \in Settings : run.cfg[s] = Chosen(given, s)

\* C29: once Validate has accepted the configuration, run does not fail with
\* 'unsupported provider'.
C29_ValidatedProviderHasClient ==
    run.validated => run.err # "unsupported provider"

====
